---- MODULE Spec2Model ----
(***************************************************************************)
(* Model of the chat Lambda handler (src/src/lambdas/chat.ts): one         *)
(* invocation parses an untrusted body, builds the Claude 3 payload,       *)
(* calls Bedrock once, extracts the text blocks and answers 200 or 500.    *)
(*                                                                         *)
(* JSON text is modelled at lexeme granularity: a string of JSON text is   *)
(* a sequence of tokens, JSON.parse is a recursive-descent parser over     *)
(* them and JSON.stringify is the serializer producing them.               *)
(***************************************************************************)
EXTENDS Integers, Sequences, FiniteSets, TLC

VARIABLES env, pc, event, local, sent, log, result

vars == <<env, pc, event, local, sent, log, result>>

----------------------------------------------------------------------------
(* JavaScript values *)

Undefined == [t |-> "undef"]
JNull == [t |-> "null"]
JBool(b) == [t |-> "bool", s |-> b]
JNum(lexeme) == [t |-> "num", s |-> lexeme]
JStr(s) == [t |-> "str", s |-> s]
JArr(elems) == [t |-> "arr", a |-> elems]
JObj(members) == [t |-> "obj", o |-> members]
Member(key, value) == [k |-> key, v |-> value]

(* A string of JSON text: its lexemes in order. *)
Punct(c) == [k |-> "punct", s |-> c]
StrTok(s) == [k |-> "str", s |-> s]
LitTok(s) == [k |-> "lit", s |-> s]
BadTok(s) == [k |-> "bad", s |-> s]

----------------------------------------------------------------------------
(* JSON.parse *)

ParseFail == [ok |-> FALSE]
ParseOk(value, next) == [ok |-> TRUE, val |-> value, next |-> next]

(* An object keeps one member per key: a repeated key overwrites the value
   and keeps the position of its first occurrence. *)
SetMember(members, key, value) ==
    IF \E i \in 1..Len(members) : members[i].k = key
    THEN [i \in 1..Len(members) |->
            IF members[i].k = key THEN Member(key, value) ELSE members[i]]
    ELSE Append(members, Member(key, value))

RECURSIVE ParseValue(_, _)
RECURSIVE ParseElements(_, _, _)
RECURSIVE ParseMembers(_, _, _)

ParseValue(toks, i) ==
    IF i > Len(toks) THEN ParseFail
    ELSE LET tok == toks[i] IN
        CASE tok.k = "str" -> ParseOk(JStr(tok.s), i + 1)
          [] tok.k = "lit" ->
                ParseOk(IF tok.s = "null" THEN JNull
                        ELSE IF tok.s \in {"true", "false"} THEN JBool(tok.s)
                        ELSE JNum(tok.s), i + 1)
          [] tok = Punct("[") ->
                IF i + 1 <= Len(toks) /\ toks[i + 1] = Punct("]")
                THEN ParseOk(JArr(<<>>), i + 2)
                ELSE ParseElements(toks, i + 1, <<>>)
          [] tok = Punct("{") ->
                IF i + 1 <= Len(toks) /\ toks[i + 1] = Punct("}")
                THEN ParseOk(JObj(<<>>), i + 2)
                ELSE ParseMembers(toks, i + 1, <<>>)
          [] OTHER -> ParseFail

ParseElements(toks, i, acc) ==
    LET r == ParseValue(toks, i) IN
    IF ~r.ok THEN ParseFail
    ELSE IF r.next > Len(toks) THEN ParseFail
    ELSE IF toks[r.next] = Punct(",")
         THEN ParseElements(toks, r.next + 1, Append(acc, r.val))
    ELSE IF toks[r.next] = Punct("]")
         THEN ParseOk(JArr(Append(acc, r.val)), r.next + 1)
    ELSE ParseFail

ParseMembers(toks, i, acc) ==
    IF i + 1 > Len(toks) THEN ParseFail
    ELSE IF toks[i].k # "str" \/ toks[i + 1] # Punct(":") THEN ParseFail
    ELSE LET r == ParseValue(toks, i + 2) IN
        IF ~r.ok THEN ParseFail
        ELSE IF r.next > Len(toks) THEN ParseFail
        ELSE IF toks[r.next] = Punct(",")
             THEN ParseMembers(toks, r.next + 1, SetMember(acc, toks[i].s, r.val))
        ELSE IF toks[r.next] = Punct("}")
             THEN ParseOk(JObj(SetMember(acc, toks[i].s, r.val)), r.next + 1)
        ELSE ParseFail

(* ok with the value, or not ok: JSON.parse throws a SyntaxError. *)
JSONParse(toks) ==
    LET r == ParseValue(toks, 1) IN
    IF r.ok /\ r.next = Len(toks) + 1
    THEN [ok |-> TRUE, val |-> r.val]
    ELSE [ok |-> FALSE]

----------------------------------------------------------------------------
(* JSON.stringify *)

RECURSIVE Stringify(_)
RECURSIVE StringifyElements(_, _)
RECURSIVE StringifyMembers(_, _)

(* An undefined array element is written as null. *)
StringifyElements(elems, i) ==
    IF i > Len(elems) THEN <<>>
    ELSE (IF i > 1 THEN <<Punct(",")>> ELSE <<>>)
         \o (IF elems[i] = Undefined THEN <<LitTok("null")>> ELSE Stringify(elems[i]))
         \o StringifyElements(elems, i + 1)

(* A member whose value is undefined is left out. *)
StringifyMembers(members, first) ==
    IF members = <<>> THEN <<>>
    ELSE IF Head(members).v = Undefined THEN StringifyMembers(Tail(members), first)
    ELSE (IF first THEN <<>> ELSE <<Punct(",")>>)
         \o <<StrTok(Head(members).k), Punct(":")>>
         \o Stringify(Head(members).v)
         \o StringifyMembers(Tail(members), FALSE)

Stringify(v) ==
    CASE v.t = "str" -> <<StrTok(v.s)>>
      [] v.t \in {"num", "bool"} -> <<LitTok(v.s)>>
      [] v.t = "null" -> <<LitTok("null")>>
      [] v.t = "arr" -> <<Punct("[")>> \o StringifyElements(v.a, 1) \o <<Punct("]")>>
      [] v.t = "obj" -> <<Punct("{")>> \o StringifyMembers(v.o, TRUE) \o <<Punct("}")>>

----------------------------------------------------------------------------
(* Property access *)

IsNullish(v) == v.t \in {"undef", "null"}

(* v.key on a value that is neither null nor undefined: the member of an
   object, undefined on anything else. *)
Get(v, key) ==
    IF v.t = "obj" /\ \E i \in 1..Len(v.o) : v.o[i].k = key
    THEN v.o[CHOOSE i \in 1..Len(v.o) : v.o[i].k = key].v
    ELSE Undefined

(* v?.key *)
OptGet(v, key) == IF IsNullish(v) THEN Undefined ELSE Get(v, key)

(* typeof v === "string" *)
IsString(v) == v.t = "str"

----------------------------------------------------------------------------
(* Values crossing the handler's boundary *)

(* A JavaScript string holding JSON text, and a byte array holding it. *)
Text(toks) == [t |-> "text", toks |-> toks]
Bytes(toks) == [t |-> "bytes", toks |-> toks]

(* if (v) for undefined, null or a string of text *)
Truthy(v) == v.t = "text" /\ v.toks # <<>>

(* new TextDecoder().decode(b): the empty string when b is undefined *)
TextDecode(b) == IF b = Undefined THEN <<>> ELSE b.toks

ErrorObject(name, message) ==
    JObj(<<Member("name", JStr(name)), Member("message", JStr(message))>>)

SyntaxError == ErrorObject("SyntaxError", "Unexpected token in JSON")

(* a || fallback, for an environment variable that is unset or a string *)
OrDefault(v, fallback) ==
    IF v = Undefined \/ v = JStr("") THEN JStr(fallback) ELSE v

DefaultRegion == "us-east-1"
DefaultModelId == "anthropic.claude-3-sonnet-20240229-v1:0"
DefaultPrompt == "Hello from Bedrock!"
FailureMessage == "Bedrock invoke failed"
JsonContentType == "application/json"

(* The environment the stack gives the function, or no variables at all. *)
Environments ==
    { [BEDROCK_REGION |-> Undefined, MODEL_ID |-> Undefined],
      [BEDROCK_REGION |-> JStr("eu-west-1"), MODEL_ID |-> JStr(DefaultModelId)] }

----------------------------------------------------------------------------
(* The stages of the handler *)

(* NormalizePrompt without the typeof test: any prompt member is taken. *)
NormalizePromptAnyType(body, prompt) ==
    IF ~Truthy(body) THEN prompt
    ELSE LET parsed == JSONParse(body.toks) IN
        IF ~parsed.ok THEN prompt
        ELSE IF IsNullish(parsed.val) THEN prompt
        ELSE IF Get(parsed.val, "prompt") # Undefined
             THEN Get(parsed.val, "prompt")
        ELSE prompt

(* The try block around the body: the prompt of the body when the body is
   JSON text of a value with a string prompt, else the prompt is left as it
   is. A SyntaxError of JSON.parse and the TypeError of reading a property
   of null are caught and ignored. *)
NormalizePrompt(body, prompt) ==
    IF ~Truthy(body) THEN prompt
    ELSE LET parsed == JSONParse(body.toks) IN
        IF ~parsed.ok THEN prompt
        ELSE IF IsNullish(parsed.val) THEN prompt
        ELSE IF IsString(Get(parsed.val, "prompt"))
             THEN Get(parsed.val, "prompt")
        ELSE prompt

(* BuildBody with the message content as a plain string. *)
BuildBodyBareString(prompt) ==
    Text(Stringify(JObj(<<
        Member("anthropic_version", JStr("bedrock-2023-05-31")),
        Member("max_tokens", JNum("200")),
        Member("temperature", JNum("0.7")),
        Member("messages", JArr(<<
            JObj(<<Member("role", JStr("user")), Member("content", prompt)>>) >>)) >>)))

(* The request body for Claude 3. *)
BuildBody(prompt) ==
    Text(Stringify(JObj(<<
        Member("anthropic_version", JStr("bedrock-2023-05-31")),
        Member("max_tokens", JNum("200")),
        Member("temperature", JNum("0.7")),
        Member("messages", JArr(<<
            JObj(<<
                Member("role", JStr("user")),
                Member("content", JArr(<<
                    JObj(<<Member("type", JStr("text")),
                           Member("text", prompt)>>) >>)) >>) >>)) >>)))

InvokeModelCommand(modelId, body) ==
    [modelId |-> modelId, contentType |-> JsonContentType,
     accept |-> JsonContentType, body |-> body]

(* IsTextBlock without the test of the type tag. *)
IsTextBlockAnyType(block) == IsString(OptGet(block, "text"))

(* block?.type === "text" && typeof block?.text === "string" *)
IsTextBlock(block) ==
    OptGet(block, "type") = JStr("text") /\ IsString(OptGet(block, "text"))

RECURSIVE Join(_)
(* strings.join("") *)
Join(strings) ==
    IF strings = <<>> THEN "" ELSE Head(strings) \o Join(Tail(strings))

(* The text blocks of raw.content joined, or "" when raw?.content is no array. *)
ExtractText(raw) ==
    LET content == OptGet(raw, "content") IN
    IF content.t = "arr"
    THEN LET kept == SelectSeq(content.a, IsTextBlock) IN
         JStr(Join([i \in 1..Len(kept) |-> Get(kept[i], "text").s]))
    ELSE JStr("")

Response(statusCode, body) ==
    [t |-> "response", statusCode |-> statusCode,
     headers |-> ("content-type" :> JsonContentType), body |-> Text(Stringify(body))]

SuccessResponse(region, modelId, prompt, text) ==
    Response(200, JObj(<<Member("region", region), Member("modelId", modelId),
                         Member("prompt", prompt), Member("text", text)>>))

(* FailureResponse with the error's own message as the message. *)
FailureResponseDetailed(err) ==
    Response(500, JObj(<<Member("message", OptGet(err, "message")),
                         Member("errorName", OptGet(err, "name")),
                         Member("errorMessage", OptGet(err, "message"))>>))

FailureResponse(err) ==
    Response(500, JObj(<<Member("message", JStr(FailureMessage)),
                         Member("errorName", OptGet(err, "name")),
                         Member("errorMessage", OptGet(err, "message"))>>))

(* The handler's promise rejects: the exception left the handler. *)
Rejected(err) == [t |-> "rejected", err |-> err]

----------------------------------------------------------------------------
(* Inputs *)

MaxBlocks == 3

Workers == {1, 2}

ObjectText(members) == Text(Stringify(JObj(members)))

(* Strings a caller asks with. *)
StringPrompts == {"Say hi", " Say hi \n", ""}

(* Bodies that are JSON text of an object with the string prompt s, alone
   or next to members named like the fixed parts of the provider payload. *)
WithPrompt(s) ==
    { ObjectText(<<Member("prompt", JStr(s))>>),
      ObjectText(<<Member("prompt", JStr(s)), Member("max_tokens", JNum("9000")),
                   Member("temperature", JNum("1")), Member("role", JStr("system")),
                   Member("anthropic_version", JStr("x"))>>) }

RepeatedPrompt ==
    Text(<<Punct("{"), StrTok("prompt"), Punct(":"), StrTok("first"), Punct(","),
           StrTok("prompt"), Punct(":"), StrTok("second"), Punct("}")>>)

PromptBodies == UNION { WithPrompt(s) : s \in StringPrompts } \cup {RepeatedPrompt}

(* event.body absent, null, "", text that is no JSON, JSON without a string
   prompt. *)
DefaultedBodies ==
    { Undefined, JNull, Text(<<>>),
      Text(<<BadTok("not"), BadTok("json")>>),
      Text(<<Punct("{"), StrTok("prompt"), Punct(":"), StrTok("Say hi")>>),
      Text(<<LitTok("null")>>), Text(<<LitTok("42")>>), Text(<<StrTok("prompt")>>),
      Text(Stringify(JArr(<<JStr("prompt")>>))),
      ObjectText(<<>>),
      ObjectText(<<Member("prompt", JNum("42"))>>),
      ObjectText(<<Member("prompt", JNull)>>),
      ObjectText(<<Member("prompt", JArr(<<JStr("Say hi")>>))>>),
      ObjectText(<<Member("Prompt", JStr("Say hi"))>>) }

Bodies == PromptBodies \cup DefaultedBodies

FewBodies ==
    { Undefined, Text(<<BadTok("not"), BadTok("json")>>),
      ObjectText(<<Member("prompt", JNum("42"))>>),
      ObjectText(<<Member("prompt", JStr("Say hi"))>>),
      ObjectText(<<Member("prompt", JStr(""))>>) }

(* What client.send throws. *)
ProviderErrors ==
    { ErrorObject("ThrottlingException", "Too many requests"),
      ErrorObject("AccessDeniedException", "Not authorized to invoke the model") }

TextBlock(s) == JObj(<<Member("type", JStr("text")), Member("text", JStr(s))>>)

Blocks ==
    { TextBlock("A"), TextBlock("B"),
      JObj(<<Member("type", JStr("image")), Member("url", JStr("x"))>>),
      JObj(<<Member("type", JStr("tool_use")), Member("text", JStr("T"))>>),
      JObj(<<Member("type", JStr("text")), Member("text", JNum("7"))>>),
      JObj(<<Member("type", JStr("text"))>>),
      JNull }

BlockSeqs(n) == UNION { [1..m -> Blocks] : m \in 0..n }

Envelope(content) == JObj(<<Member("id", JStr("msg_1")), Member("content", content)>>)

(* resp.body of a call that succeeded: bytes of an envelope whose content is
   a sequence of blocks. *)
SequencePayloads(n) ==
    { Bytes(Stringify(Envelope(JArr(blocks)))) : blocks \in BlockSeqs(n) }

(* ... bytes of JSON without a content sequence. *)
OtherPayloads ==
    { Bytes(Stringify(v)) :
        v \in { JNull, JNum("7"), JStr("content"), JArr(<<TextBlock("A")>>), JObj(<<>>),
                Envelope(JStr("A")), Envelope(TextBlock("A")), Envelope(JNull) } }

(* ... bytes that are no JSON, or no body. *)
BrokenPayloads ==
    { Undefined, Bytes(<<>>), Bytes(<<BadTok("<html>")>>),
      Bytes(<<Punct("{"), StrTok("content"), Punct(":"), Punct("[")>>) }

FewPayloads ==
    { Bytes(Stringify(Envelope(JArr(<<TextBlock("A"), TextBlock("B")>>)))),
      Bytes(Stringify(JNull)), Bytes(<<BadTok("<html>")>>) }

Payloads == SequencePayloads(1) \cup OtherPayloads \cup BrokenPayloads

ManyPayloads == SequencePayloads(MaxBlocks) \cup OtherPayloads \cup BrokenPayloads

----------------------------------------------------------------------------
(* One invocation, statement by statement *)

NoLocals ==
    [region |-> Undefined, modelId |-> Undefined, prompt |-> Undefined,
     client |-> Undefined, body |-> Undefined, resp |-> Undefined,
     raw |-> Undefined, text |-> Undefined, err |-> Undefined]

Init ==
    /\ env \in Environments
    /\ pc = [w \in Workers |-> "idle"]
    /\ event = [w \in Workers |-> Undefined]
    /\ local = [w \in Workers |-> NoLocals]
    /\ sent = [w \in Workers |-> <<>>]
    /\ log = [w \in Workers |-> <<>>]
    /\ result = [w \in Workers |-> Undefined]

(* The platform calls the handler with an event; the handler reads its
   configuration and sets the default prompt. *)
Invoke(w, bodies) ==
    /\ pc[w] = "idle"
    /\ \E body \in bodies : event' = [event EXCEPT ![w] = [body |-> body]]
    /\ local' = [local EXCEPT ![w] =
                    [NoLocals EXCEPT !.region = OrDefault(env.BEDROCK_REGION, DefaultRegion),
                                     !.modelId = OrDefault(env.MODEL_ID, DefaultModelId),
                                     !.prompt = JStr(DefaultPrompt)]]
    /\ pc' = [pc EXCEPT ![w] = "normalize"]
    /\ UNCHANGED <<env, sent, log, result>>

Normalize(w) ==
    /\ pc[w] = "normalize"
    /\ local' = [local EXCEPT ![w].prompt = NormalizePrompt(event[w].body, @)]
    /\ pc' = [pc EXCEPT ![w] = "client"]
    /\ UNCHANGED <<env, event, sent, log, result>>

(* new BedrockRuntimeClient({ region }), outside any try block: what the
   constructor throws leaves the handler. *)
NewClient(w) ==
    /\ pc[w] = "client"
    /\ \/ /\ local' = [local EXCEPT ![w].client = [t |-> "client", region |-> local[w].region]]
          /\ pc' = [pc EXCEPT ![w] = "build"]
          /\ UNCHANGED result
       \/ /\ result' = [result EXCEPT ![w] =
                            Rejected(ErrorObject("Error", "client construction failed"))]
          /\ pc' = [pc EXCEPT ![w] = "done"]
          /\ UNCHANGED local
    /\ UNCHANGED <<env, event, sent, log>>

Build(w) ==
    /\ pc[w] = "build"
    /\ local' = [local EXCEPT ![w].body = BuildBody(local[w].prompt)]
    /\ pc' = [pc EXCEPT ![w] = "send"]
    /\ UNCHANGED <<env, event, sent, log, result>>

(* Send answering from another invocation's response for the same body. *)
SendCached(w) ==
    /\ pc[w] = "send"
    /\ IF \E v \in Workers \ {w} : event[v] = event[w] /\ local[v].resp # Undefined
       THEN /\ \E v \in Workers \ {w} :
                  /\ event[v] = event[w] /\ local[v].resp # Undefined
                  /\ local' = [local EXCEPT ![w].resp = local[v].resp]
            /\ pc' = [pc EXCEPT ![w] = "decode"]
            /\ UNCHANGED sent
       ELSE /\ sent' = [sent EXCEPT ![w] =
                          Append(@, InvokeModelCommand(local[w].modelId, local[w].body))]
            /\ pc' = [pc EXCEPT ![w] = "await"]
            /\ UNCHANGED local
    /\ UNCHANGED <<env, event, log, result>>

(* client.send(new InvokeModelCommand(...)): the request leaves, the handler
   awaits. *)
Send(w) ==
    /\ pc[w] = "send"
    /\ sent' = [sent EXCEPT ![w] = Append(@, InvokeModelCommand(local[w].modelId, local[w].body))]
    /\ pc' = [pc EXCEPT ![w] = "await"]
    /\ UNCHANGED <<env, event, local, log, result>>

(* The awaited call resolves with a response. *)
Resolve(w, payloads) ==
    /\ pc[w] = "await"
    /\ \E bytes \in payloads :
          local' = [local EXCEPT ![w].resp = [t |-> "resp", body |-> bytes]]
    /\ pc' = [pc EXCEPT ![w] = "decode"]
    /\ UNCHANGED <<env, event, sent, log, result>>

(* Reject trying the call a second time before giving up. *)
RejectRetry(w) ==
    /\ pc[w] = "await"
    /\ IF Len(sent[w]) < 2
       THEN pc' = [pc EXCEPT ![w] = "send"] /\ UNCHANGED local
       ELSE /\ \E e \in ProviderErrors : local' = [local EXCEPT ![w].err = e]
            /\ pc' = [pc EXCEPT ![w] = "catch"]
    /\ UNCHANGED <<env, event, sent, log, result>>

(* The awaited call throws: control passes to the catch block. *)
Reject(w) ==
    /\ pc[w] = "await"
    /\ \E e \in ProviderErrors : local' = [local EXCEPT ![w].err = e]
    /\ pc' = [pc EXCEPT ![w] = "catch"]
    /\ UNCHANGED <<env, event, sent, log, result>>

(* raw = JSON.parse(new TextDecoder().decode(resp.body)) *)
Decode(w) ==
    /\ pc[w] = "decode"
    /\ LET parsed == JSONParse(TextDecode(local[w].resp.body)) IN
       IF parsed.ok
       THEN /\ local' = [local EXCEPT ![w].raw = parsed.val]
            /\ pc' = [pc EXCEPT ![w] = "extract"]
       ELSE /\ local' = [local EXCEPT ![w].err = SyntaxError]
            /\ pc' = [pc EXCEPT ![w] = "catch"]
    /\ UNCHANGED <<env, event, sent, log, result>>

(* Extract reading raw.content without the optional chaining: a TypeError
   on null. *)
ExtractStrict(w) ==
    /\ pc[w] = "extract"
    /\ IF IsNullish(local[w].raw)
       THEN /\ local' = [local EXCEPT ![w].err =
                            ErrorObject("TypeError", "Cannot read properties of null")]
            /\ pc' = [pc EXCEPT ![w] = "catch"]
       ELSE /\ local' = [local EXCEPT ![w].text = ExtractText(local[w].raw)]
            /\ pc' = [pc EXCEPT ![w] = "return"]
    /\ UNCHANGED <<env, event, sent, log, result>>

Extract(w) ==
    /\ pc[w] = "extract"
    /\ local' = [local EXCEPT ![w].text = ExtractText(local[w].raw)]
    /\ pc' = [pc EXCEPT ![w] = "return"]
    /\ UNCHANGED <<env, event, sent, log, result>>

ReturnSuccess(w) ==
    /\ pc[w] = "return"
    /\ result' = [result EXCEPT ![w] =
                    SuccessResponse(local[w].region, local[w].modelId,
                                    local[w].prompt, local[w].text)]
    /\ pc' = [pc EXCEPT ![w] = "done"]
    /\ UNCHANGED <<env, event, local, sent, log>>

(* LogError without the console.error. *)
LogErrorSilent(w) ==
    /\ pc[w] = "catch"
    /\ pc' = [pc EXCEPT ![w] = "fail"]
    /\ UNCHANGED <<env, event, local, sent, log, result>>

(* console.error("Bedrock invoke failed:", err) *)
LogError(w) ==
    /\ pc[w] = "catch"
    /\ log' = [log EXCEPT ![w] = Append(@, <<JStr("Bedrock invoke failed:"), local[w].err>>)]
    /\ pc' = [pc EXCEPT ![w] = "fail"]
    /\ UNCHANGED <<env, event, local, sent, result>>

ReturnFailure(w) ==
    /\ pc[w] = "fail"
    /\ result' = [result EXCEPT ![w] = FailureResponse(local[w].err)]
    /\ pc' = [pc EXCEPT ![w] = "done"]
    /\ UNCHANGED <<env, event, local, sent, log>>

(* The invocation is over and its values are gone; the function can be
   invoked again. *)
Finish(w) ==
    /\ pc[w] = "done"
    /\ pc' = [pc EXCEPT ![w] = "idle"]
    /\ event' = [event EXCEPT ![w] = Undefined]
    /\ local' = [local EXCEPT ![w] = NoLocals]
    /\ sent' = [sent EXCEPT ![w] = <<>>]
    /\ log' = [log EXCEPT ![w] = <<>>]
    /\ result' = [result EXCEPT ![w] = Undefined]
    /\ UNCHANGED env

Step(w, bodies, payloads) ==
    \/ Invoke(w, bodies)
    \/ Normalize(w)
    \/ NewClient(w)
    \/ Build(w)
    \/ Send(w)
    \/ Resolve(w, payloads)
    \/ Reject(w)
    \/ Decode(w)
    \/ Extract(w)
    \/ ReturnSuccess(w)
    \/ LogError(w)
    \/ ReturnFailure(w)
    \/ Finish(w)

(* One invocation at a time, every body, the usual provider outcomes. *)
Next == Step(1, Bodies, Payloads)

Spec == Init /\ [][Next]_vars

(* One invocation at a time, every content sequence of up to MaxBlocks blocks. *)
NextExtract == Step(1, FewBodies, ManyPayloads)

SpecExtract == Init /\ [][NextExtract]_vars

(* Two invocations interleaved. *)
NextConcurrent == \E w \in Workers : Step(w, FewBodies, FewPayloads)

SpecConcurrent == Init /\ [][NextConcurrent]_vars

----------------------------------------------------------------------------
(* What the properties read *)

BodyOf(w) == event[w].body

Invoked(w) == event[w] # Undefined

(* The request the provider received, as the provider reads it. *)
PayloadOf(cmd) == JSONParse(cmd.body.toks)

Keys(obj) == [i \in 1..Len(obj.o) |-> obj.o[i].k]

IsResponse(w, statusCode) ==
    /\ result[w].t = "response"
    /\ result[w].statusCode = statusCode

(* The response body, as the caller reads it. *)
ResponseBody(w) == JSONParse(result[w].body.toks).val

(* The text member of the only block of the only message of a payload. *)
PromptSent(cmd) == Get(Get(Get(PayloadOf(cmd).val, "messages").a[1], "content").a[1], "text")

OneUserTextMessage(payload) ==
    LET messages == Get(payload, "messages") IN
    /\ messages.t = "arr" /\ Len(messages.a) = 1
    /\ Keys(messages.a[1]) = <<"role", "content">>
    /\ Get(messages.a[1], "role") = JStr("user")
    /\ LET content == Get(messages.a[1], "content") IN
       /\ content.t = "arr" /\ Len(content.a) = 1
       /\ Keys(content.a[1]) = <<"type", "text">>
       /\ Get(content.a[1], "type") = JStr("text")
       /\ Get(content.a[1], "text").t = "str"

----------------------------------------------------------------------------
(* C1: for every request body, the prompt the handler puts into the
   inference request is a non-empty string. *)
C1_PromptNonEmpty ==
    \A w \in Workers : \A i \in 1..Len(sent[w]) :
        /\ PayloadOf(sent[w][i]).ok
        /\ OneUserTextMessage(PayloadOf(sent[w][i]).val)
        /\ PromptSent(sent[w][i]).s # ""

(* C2: when the body is absent, null, "", no JSON, or JSON without a string
   prompt, the normalizer hands over to the next stage without a result or
   an exception, the prompt is the default literal from then on and in the
   request sent, and no 500 is answered without a provider call. *)
C2_DefaultedState ==
    \A w \in Workers :
        (Invoked(w) /\ BodyOf(w) \in DefaultedBodies) =>
            /\ pc[w] # "normalize" => local[w].prompt = JStr(DefaultPrompt)
            /\ \A i \in 1..Len(sent[w]) : PromptSent(sent[w][i]) = JStr(DefaultPrompt)
            /\ pc[w] \in {"normalize", "client"} => result[w] = Undefined
            /\ IsResponse(w, 500) => Len(sent[w]) = 1

C2_NormalizerHandsOver ==
    \A w \in Workers :
        (pc[w] = "normalize" /\ BodyOf(w) \in DefaultedBodies) =>
            /\ pc'[w] \in {"normalize", "client"}
            /\ result'[w] = Undefined

C2_DefaultPrompt == [](C2_DefaultedState) /\ [][C2_NormalizerHandsOver]_vars

C2_Witness ==
    /\ pc[1] = "await"
    /\ BodyOf(1) = ObjectText(<<Member("prompt", JNum("42"))>>)
    /\ PromptSent(sent[1][1]) = JStr("Hello from Bedrock!")

(* C3: for a body that is JSON with the string prompt s, the payload sent
   holds exactly the version tag, max_tokens 200, temperature 0.7 and one
   user message whose content is one text block with text s unchanged,
   whatever else the body holds. *)
C3_PayloadShape ==
    \A w \in Workers : \A i \in 1..Len(sent[w]) :
        LET parsed == PayloadOf(sent[w][i]) IN
        /\ parsed.ok
        /\ Keys(parsed.val) = <<"anthropic_version", "max_tokens", "temperature", "messages">>
        /\ Get(parsed.val, "anthropic_version") = JStr("bedrock-2023-05-31")
        /\ Get(parsed.val, "max_tokens") = JNum("200")
        /\ Get(parsed.val, "temperature") = JNum("0.7")
        /\ OneUserTextMessage(parsed.val)
        /\ \A s \in StringPrompts :
              BodyOf(w) \in WithPrompt(s) => PromptSent(sent[w][i]) = JStr(s)
        /\ BodyOf(w) = RepeatedPrompt => PromptSent(sent[w][i]) = JStr("second")

C3_Witness ==
    /\ pc[1] = "await"
    /\ BodyOf(1) \in WithPrompt(" Say hi \n")
    /\ Get(JSONParse(BodyOf(1).toks).val, "max_tokens") = JNum("9000")
    /\ PromptSent(sent[1][1]) = JStr(" Say hi \n")

----------------------------------------------------------------------------
RECURSIVE TextOfBlocks(_)
(* The text of the blocks that are objects whose type is "text" and whose
   text is a string, in order. *)
TextOfBlocks(blocks) ==
    IF blocks = <<>> THEN ""
    ELSE LET b == Head(blocks) IN
         (IF /\ b.t = "obj"
             /\ \E i \in 1..Len(b.o) : b.o[i] = Member("type", JStr("text"))
             /\ \E i \in 1..Len(b.o) : b.o[i].k = "text" /\ b.o[i].v.t = "str"
          THEN (CHOOSE m \in {b.o[i] : i \in 1..Len(b.o)} : m.k = "text").v.s
          ELSE "")
         \o TextOfBlocks(Tail(blocks))

HasContentSequence(raw) ==
    /\ raw.t = "obj"
    /\ \E i \in 1..Len(raw.o) : raw.o[i].k = "content" /\ raw.o[i].v.t = "arr"

ContentOf(raw) == (CHOOSE m \in {raw.o[i] : i \in 1..Len(raw.o)} : m.k = "content").v.a

Decoded(w) == local[w].raw # Undefined

(* C4: when the decoded content is a sequence, the invocation goes on to
   answer 200 and the text is the text values of the text blocks with a
   string text, in order and without separator; no other block is an error. *)
C4_TextOfTextBlocks ==
    \A w \in Workers :
        (Decoded(w) /\ HasContentSequence(local[w].raw)) =>
            /\ pc[w] \in {"extract", "return", "done"}
            /\ pc[w] \in {"return", "done"} =>
                  local[w].text = JStr(TextOfBlocks(ContentOf(local[w].raw)))
            /\ pc[w] = "done" =>
                  /\ IsResponse(w, 200)
                  /\ Get(ResponseBody(w), "text") = JStr(TextOfBlocks(ContentOf(local[w].raw)))

C4_Witness ==
    /\ pc[1] = "done"
    /\ Decoded(1)
    /\ Get(local[1].raw, "content") =
          JArr(<<TextBlock("A"),
                 JObj(<<Member("type", JStr("image")), Member("url", JStr("x"))>>),
                 TextBlock("B")>>)
    /\ IsResponse(1, 200)
    /\ Get(ResponseBody(1), "text") = JStr("AB")

(* C5: when the payload parses as JSON but holds no content sequence, the
   invocation goes on to answer 200 with the empty text. *)
C5_NoContentIsEmptyText ==
    \A w \in Workers :
        (Decoded(w) /\ ~HasContentSequence(local[w].raw)) =>
            /\ pc[w] \in {"extract", "return", "done"}
            /\ pc[w] \in {"return", "done"} => local[w].text = JStr("")
            /\ pc[w] = "done" =>
                  /\ IsResponse(w, 200)
                  /\ Get(ResponseBody(w), "text") = JStr("")

C5_Witness ==
    /\ pc[1] = "done"
    /\ local[1].raw = JNull
    /\ IsResponse(1, 200)
    /\ Get(ResponseBody(1), "text") = JStr("")

----------------------------------------------------------------------------
(* The provider call failed: a request went out and no response came back. *)
CallFailed(w) == Len(sent[w]) > 0 /\ pc[w] \notin {"send", "await"} /\ local[w].resp = Undefined

(* The payload of a successful call did not decode and parse. *)
DecodeFailed(w) ==
    /\ local[w].resp # Undefined
    /\ pc[w] # "decode"
    /\ local[w].raw = Undefined

GenericFailureBody(w, name, message) ==
    /\ Keys(ResponseBody(w)) = <<"message", "errorName", "errorMessage">>
    /\ Get(ResponseBody(w), "message") = JStr("Bedrock invoke failed")
    /\ Get(ResponseBody(w), "errorName") = name
    /\ Get(ResponseBody(w), "errorMessage") = message

(* C6: after a failed provider call, or a payload that does not decode and
   parse, the invocation ends with status 500 and the body {message: the
   fixed literal, errorName: the error's name, errorMessage: the error's
   message}, and nothing else. *)
C6_FailureBody ==
    \A w \in Workers :
        /\ (CallFailed(w) \/ DecodeFailed(w)) =>
              /\ pc[w] \in {"catch", "fail", "done"}
              /\ local[w].err # Undefined
              /\ pc[w] = "done" =>
                    /\ IsResponse(w, 500)
                    /\ JSONParse(result[w].body.toks).ok
                    /\ GenericFailureBody(w, Get(local[w].err, "name"),
                                             Get(local[w].err, "message"))
        /\ CallFailed(w) => local[w].err \in ProviderErrors
        /\ DecodeFailed(w) => Get(local[w].err, "name") = JStr("SyntaxError")

C6_Witness ==
    /\ pc[1] = "done"
    /\ CallFailed(1)
    /\ IsResponse(1, 500)
    /\ Get(ResponseBody(1), "errorName") = JStr("ThrottlingException")

(* C7: every invocation that ends has returned a response with status 200
   or 500 and content type application/json; none ends with an exception. *)
C7_AlwaysResponds ==
    \A w \in Workers :
        pc[w] = "done" =>
            /\ result[w].t = "response"
            /\ result[w].statusCode \in {200, 500}
            /\ result[w].headers = ("content-type" :> "application/json")

(* C8: an invocation calls the provider at most once; after a failed call
   it goes to the 500 response without another call, and a 200 response
   follows exactly one call that resolved. *)
C8_SingleCall ==
    \A w \in Workers :
        /\ Len(sent[w]) <= 1
        /\ pc[w] \in {"await", "decode", "extract", "return", "catch", "fail"} =>
              Len(sent[w]) = 1
        /\ IsResponse(w, 500) => Len(sent[w]) = 1
        /\ IsResponse(w, 200) =>
              Len(sent[w]) = 1 /\ local[w].resp # Undefined /\ local[w].err = Undefined

C8_Witness ==
    /\ pc[1] = "done"
    /\ IsResponse(1, 500)
    /\ CallFailed(1)
    /\ Len(sent[1]) = 1

(* C9: two invocations with the same body send the same request, whatever
   the other invocation is doing or has met, and every invocation that got
   past sending has made its own call. *)
C9_RequestDependsOnBody ==
    /\ \A v, w \in Workers :
          (Invoked(v) /\ Invoked(w) /\ BodyOf(v) = BodyOf(w)) =>
              \A i \in 1..Len(sent[v]) : \A j \in 1..Len(sent[w]) :
                  sent[v][i] = sent[w][j]
    /\ \A w \in Workers :
          (local[w].resp # Undefined \/ local[w].err # Undefined \/
           result[w].t = "response") => Len(sent[w]) = 1

C9_Witness ==
    /\ Invoked(1) /\ Invoked(2)
    /\ BodyOf(1) = BodyOf(2)
    /\ IsResponse(1, 500)
    /\ pc[2] = "decode"
    /\ Len(sent[1]) = 1 /\ sent[1] = sent[2]

(* C10: an error is logged, with the error itself, before the 500 response
   is formed, and nothing is logged in an invocation that answers 200. *)
C10_LoggedState ==
    \A w \in Workers :
        /\ (pc[w] = "fail" \/ IsResponse(w, 500)) =>
              Len(log[w]) = 1 /\ log[w][1][2] = local[w].err
        /\ IsResponse(w, 200) => log[w] = <<>>

C10_LoggedBeforeResponse ==
    \A w \in Workers :
        (result[w] = Undefined /\ result'[w] # Undefined /\ result'[w].t = "response"
            /\ result'[w].statusCode = 500) =>
                Len(log[w]) = 1 /\ log'[w] = log[w]

C10_FailureLogged == [](C10_LoggedState) /\ [][C10_LoggedBeforeResponse]_vars

C10_Witness ==
    /\ IsResponse(1, 500)
    /\ DecodeFailed(1)
    /\ log[1] = <<<<JStr("Bedrock invoke failed:"), SyntaxError>>>>

====
